---- MODULE Spec2Model ----
(***************************************************************************)
(* Feature-importance engine of finance_ml/features/importance.py:         *)
(* feat_imp_MDI, feat_imp_MDA, feat_imp_SFI and the orchestrator           *)
(* feat_importance, as one state machine.  A behaviour is one call of one  *)
(* of the four public operations, from the call to its return or to the    *)
(* exception that leaves it.                                               *)
(*                                                                         *)
(* Numbers are exact rationals with the three IEEE specials the pandas     *)
(* arithmetic of the source produces (NaN, +inf, -inf).  Standard          *)
(* deviations are carried as their squares (std * sqrt(n))^2, which keeps  *)
(* them rational.                                                          *)
(***************************************************************************)
EXTENDS Integers, Sequences, FiniteSets, TLC

\* ------------------------------------------------------------------ bounds
\* Number of cross-validation folds of a call (n_splits).
MaxSplits == 2
\* Largest worker count (num_threads) a call may ask for.
MaxWorkers == 2
\* Largest number of trees of a fitted ensemble.
MaxTrees == 2

\* -------------------------------------------------------------- arithmetic
Abs(x) == IF x < 0 THEN -x ELSE x

RECURSIVE Gcd(_, _)
Gcd(a, b) == IF b = 0 THEN a ELSE Gcd(b, a % b)

\* A float64 value: a rational n/d in lowest terms (d > 0) or a special.
Rat(n, d) ==
    LET s == IF d < 0 THEN -1 ELSE 1
        g == Gcd(Abs(n), Abs(d))
    IN  [k |-> "num", n |-> (s * n) \div g, d |-> (s * d) \div g]

NaN == [k |-> "nan", n |-> 0, d |-> 1]
PInf == [k |-> "pinf", n |-> 0, d |-> 1]
NInf == [k |-> "ninf", n |-> 0, d |-> 1]
Zero == Rat(0, 1)
One == Rat(1, 1)

IsNum(a) == a.k = "num"
IsNaN(a) == a.k = "nan"

Neg(a) ==
    CASE a.k = "num" -> Rat(-a.n, a.d)
      [] a.k = "pinf" -> NInf
      [] a.k = "ninf" -> PInf
      [] OTHER -> NaN

Add(a, b) ==
    CASE IsNaN(a) \/ IsNaN(b) -> NaN
      [] IsNum(a) /\ IsNum(b) -> Rat(a.n * b.d + b.n * a.d, a.d * b.d)
      [] IsNum(a) -> b
      [] IsNum(b) -> a
      [] a.k = b.k -> a
      [] OTHER -> NaN

Sub(a, b) == Add(a, Neg(b))

Mul(a, b) ==
    CASE IsNaN(a) \/ IsNaN(b) -> NaN
      [] IsNum(a) /\ IsNum(b) -> Rat(a.n * b.n, a.d * b.d)
      [] (IsNum(a) /\ a.n = 0) \/ (IsNum(b) /\ b.n = 0) -> NaN
      [] OTHER ->
           LET sa == IF a.k = "ninf" \/ (IsNum(a) /\ a.n < 0) THEN -1 ELSE 1
               sb == IF b.k = "ninf" \/ (IsNum(b) /\ b.n < 0) THEN -1 ELSE 1
           IN  IF sa * sb > 0 THEN PInf ELSE NInf

\* float64 division: x/0 is +-inf by the sign of x, 0/0 is NaN, no exception.
Div(a, b) ==
    CASE IsNaN(a) \/ IsNaN(b) -> NaN
      [] IsNum(a) /\ IsNum(b) ->
           IF b.n # 0 THEN Rat(a.n * b.d, a.d * b.n)
           ELSE IF a.n = 0 THEN NaN
           ELSE IF a.n > 0 THEN PInf ELSE NInf
      [] IsNum(b) ->
           IF b.n < 0 THEN Neg(a) ELSE a
      [] IsNum(a) -> Zero
      [] OTHER -> NaN

RECURSIVE SumSeq(_)
SumSeq(s) == IF s = <<>> THEN Zero ELSE Add(Head(s), SumSeq(Tail(s)))

SkipNa(s) == SelectSeq(s, LAMBDA v : ~IsNaN(v))

\* pandas sum(): missing values are skipped, the empty sum is 0.
PdSum(s) == SumSeq(SkipNa(s))

\* pandas mean(): missing values are skipped, the mean of nothing is NaN.
PdMean(s) ==
    LET t == SkipNa(s)
    IN  IF t = <<>> THEN NaN ELSE Div(SumSeq(t), Rat(Len(t), 1))

\* pandas var() (ddof = 1): NaN with fewer than two values present.
PdVar(s) ==
    LET t == SkipNa(s)
        m == PdMean(s)
        sq == [i \in 1..Len(t) |-> Mul(Sub(t[i], m), Sub(t[i], m))]
    IN  IF Len(t) < 2 THEN NaN ELSE Div(SumSeq(sq), Rat(Len(t) - 1, 1))

\* (std() * sqrt(rows))^2 = var() * rows.
StdSq(s, rows) == Mul(PdVar(s), Rat(rows, 1))

\* -------------------------------------------------------------------- data
\* X.columns, in column order.
Columns == <<"A", "B">>
ColSet == {Columns[i] : i \in 1..Len(Columns)}

n_splits == MaxSplits
\* Two samples fall into every test block.
Rows == 1..(2 * n_splits)

\* The FeatureMatrix of a call: every cell holds a value of its own.
XChoices ==
    { [r \in Rows |-> [c \in ColSet |-> IF c = "A" THEN 10 + r ELSE 20 + r]] }

\* cont: label 'size', weight 'w' and event end 't1' of every sample.  Every
\* event but the last spans into the next sample.
ContOf ==
    [r \in Rows |-> [size |-> r % 2, w |-> 1,
                     t1 |-> IF r + 1 \in Rows THEN r + 1 ELSE r]]

ScoringNames == {"neg_log_loss", "accuracy", "f1"}
Methods == {"MDI", "MDA", "SFI"}

\* What a scoring call can return.  accuracy_score is a fraction in [0, 1];
\* -log_loss is strictly negative (log_loss clips the probabilities).
ScoreValues(scoring) ==
    IF scoring = "accuracy" THEN {Zero, Rat(1, 2), One}
    ELSE {Rat(-2, 1), Rat(-1, 1)}

\* tree.feature_importances_ of one fitted tree, per column.
ImpValues == {Zero, Rat(1, 4), Rat(1, 2), Rat(3, 4), One}
\* A tree's importances are normalised to sum to 1; they are all 0 for a
\* tree that is a single leaf.
TreeVectors ==
    { v \in [ColSet -> ImpValues] :
        SumSeq([i \in 1..Len(Columns) |-> v[Columns[i]]]) \in {Zero, One} }
Forests ==
    UNION {[1..t -> TreeVectors] : t \in 1..MaxTrees}

\* ------------------------------------------------------------- feat_imp_MDI
\* The zero entries kept and averaged in as 0.
ReplaceZeroKept(v) == v

\* imp_df.replace(0, np.nan): a zero entry becomes the missing marker.
ReplaceZero(v) == IF IsNum(v) /\ v.n = 0 THEN NaN ELSE v

\* Column c of the stacked table imp_df, one entry per tree.
ImpColumn(forest, c) ==
    [i \in 1..Len(forest) |-> ReplaceZero(forest[i][c])]

\* imp before normalisation: mean and std * sqrt(imp_df.shape[0]).
MDIRaw(forest) ==
    [c \in ColSet |->
        [mean |-> PdMean(ImpColumn(forest, c)),
         std2 |-> StdSq(ImpColumn(forest, c), Len(forest))]]

\* imp['mean'].sum()
MeanSum(imp) == PdSum([i \in 1..Len(Columns) |-> imp[Columns[i]].mean])

\* imp /= imp['mean'].sum(): both columns are divided by the sum of means.
Normalise(imp) ==
    LET s == MeanSum(imp)
    IN  [c \in ColSet |->
            [mean |-> Div(imp[c].mean, s),
             std2 |-> Div(imp[c].std2, Mul(s, s))]]

feat_imp_MDI(forest) == Normalise(MDIRaw(forest))

\* --------------------------------------------------------------- the report
\* An importance report is a table: one row per index label, in row order.
Row(name, mean, std2) == [name |-> name, mean |-> mean, std2 |-> std2]

\* imp.loc[name, ...] = ...: the row of that label is replaced, or appended.
SetRow(imp, row) ==
    IF \E i \in 1..Len(imp) : imp[i].name = row.name
    THEN [i \in 1..Len(imp) |-> IF imp[i].name = row.name THEN row ELSE imp[i]]
    ELSE Append(imp, row)

\* A per-column record as a table in column order.
AsTable(byCol) ==
    [i \in 1..Len(Columns) |->
        Row(Columns[i], byCol[Columns[i]].mean, byCol[Columns[i]].std2)]

\* ----------------------------------------------------------- PurgedKFold
\* pct_embargo defaults to 0: no sample is embargoed.
EmbargoRows == 0

\* Test block k: contiguous, equal-sized blocks in row (time) order.
TestRows(k) == {2 * k - 1, 2 * k}

Max(S) == CHOOSE m \in S : \A x \in S : x <= m
Min(S) == CHOOSE m \in S : \A x \in S : m <= x

\* Train rows of fold k: outside the test block, with an event span
\* [r, t1[r]] that does not overlap the test block's span, and outside the
\* embargo that follows the block.
TrainRows(k, ct) ==
    LET test == TestRows(k)
        t0 == Min(test)
        tEnd == Max({ct[r].t1 : r \in test})
    IN  { r \in Rows \ test :
            /\ ~(r <= tEnd /\ ct[r].t1 >= t0)
            /\ ~(r > Max(test) /\ r <= Max(test) + EmbargoRows) }

\* cv_gen.split(X): the folds in order.
Split(ct) ==
    [k \in 1..n_splits |-> [train |-> TrainRows(k, ct), test |-> TestRows(k)]]

\* ------------------------------------------------------------ the classifier
\* One entry of the log of classifier operations.  obj is the object the
\* operation acts on; model is the log index of the fit a score is taken from.
FitOp(by, obj, rows, cols, k, weighted) ==
    [op |-> "fit", by |-> by, obj |-> obj, rows |-> rows, cols |-> cols,
     fold |-> k, col |-> "-", model |-> 0, weighted |-> weighted]

ScoreOp(by, obj, rows, cols, k, col, model, weighted) ==
    [op |-> "score", by |-> by, obj |-> obj, rows |-> rows, cols |-> cols,
     fold |-> k, col |-> col, model |-> model, weighted |-> weighted]

\* The classifier kinds a caller can pass; "None" builds the default one.
ClfArgs == {"None", "bagging_oob", "forest_no_oob"}

\* clf is None: BaggingClassifier(..., oob_score=True, n_jobs=n_jobs).
BuildClf(clfArg, num_threads) ==
    [kind |-> IF clfArg = "None" THEN "bagging_oob" ELSE clfArg,
     fit |-> 0,
     n_jobs |-> IF clfArg # "None" THEN 0
                ELSE IF num_threads > 1 THEN -1 ELSE 1]

\* hasattr(fit_clf, 'oob_score_')
HasOob(c) == c.kind = "bagging_oob"

\* ------------------------------------------------------------------- values
\* A local or a returned value that is not a report.
Unset == [kind |-> "unset", val |-> NaN, series |-> <<>>, fit |-> 0]
NoneVal == [kind |-> "None", val |-> NaN, series |-> <<>>, fit |-> 0]
Scalar(v) == [kind |-> "scalar", val |-> v, series |-> <<>>, fit |-> 0]
Series(s) == [kind |-> "series", val |-> NaN, series |-> s, fit |-> 0]
\* fit_clf.oob_score_, of the fit with that log index.
OobScore(f) == [kind |-> "oob_score_", val |-> NaN, series |-> <<>>, fit |-> f]

VARIABLES
    entry,    \* the public operation that was called, "none" before the call
    args,     \* the arguments of the call
    pc,       \* the position of the call
    X,        \* the FeatureMatrix object of the caller
    cont,     \* the caller's labels, weights and event spans
    caller,   \* the caller's data as it was when the call was made
    clf,      \* the classifier object the call works with
    ops,      \* the classifier operations performed so far, in order
    m,        \* the locals of feat_imp_MDA
    sfi,      \* the locals of every running feat_imp_SFI, by context
    tasks,    \* the dispatcher's tasks: feature -> state
    loc,      \* the locals of feat_importance
    out       \* the outcome of the call

vars == <<entry, args, pc, X, cont, caller, clf, ops, m, sfi, tasks, loc, out>>

EmptyFrame == [r \in {} |-> [c \in ColSet |-> 0]]

NoArgs ==
    [scoring |-> "accuracy", method |-> "-", num_threads |-> 1,
     clfArg |-> "None", weighted |-> FALSE, forest |-> <<>>]

NoClf == [kind |-> "none", fit |-> 0, n_jobs |-> 0]

MInit ==
    [idx |-> 0, ci |-> 0, train |-> {}, test |-> {},
     X_test |-> EmptyFrame, X_test_ |-> EmptyFrame, fitted |-> 0,
     scores |-> <<>>, scores_perm |-> <<>>]

\* Execution contexts of feat_imp_SFI: the direct call, or the task of a column.
Contexts == {"direct"} \cup ColSet
SfiIdle == [st |-> "idle", i |-> 0, imp |-> <<>>]

LocInit ==
    [imp |-> <<>>, impFit |-> 0, oob |-> Unset, oos |-> Unset, folds |-> <<>>]

OutInit ==
    [st |-> "none", err |-> "", imp |-> <<>>, oob |-> Unset, oos |-> Unset]

Init ==
    /\ entry = "none"
    /\ args = NoArgs
    /\ pc = "idle"
    /\ X \in XChoices
    /\ cont = ContOf
    /\ caller = [X |-> X, cont |-> cont]
    /\ clf = NoClf
    /\ ops = <<>>
    /\ m = MInit
    /\ sfi = [c \in Contexts |-> SfiIdle]
    /\ tasks = [c \in ColSet |-> "none"]
    /\ loc = LocInit
    /\ out = OutInit

\* ---------------------------------------------------------------- exceptions
\* A handler that swallows the exception and lets the loop continue.
RaiseCaught(err, next) == [st |-> "running", err |-> err, pc |-> next]

\* No handler exists in the module: an exception raised at any point leaves
\* the call.  next is where the enclosing loop would continue.
Raise(err, next) == [st |-> "raised", err |-> err, pc |-> "done"]

\* The state change of an exception that nothing else accompanies.
Throw(err, next) ==
    LET h == Raise(err, next)
    IN  /\ out' = [out EXCEPT !.st = h.st, !.err = err]
        /\ pc' = h.pc

\* --------------------------------------------------------------- the calls
\* feat_imp_MDA(clf, X, y, n_splits, t1, sample_weight, pct_embargo, scoring)
CallMDA(scoring, weighted) ==
    /\ pc = "idle"
    /\ entry' = "feat_imp_MDA"
    /\ args' = [NoArgs EXCEPT !.scoring = scoring, !.weighted = weighted,
                               !.clfArg = "forest_no_oob"]
    /\ clf' = BuildClf("forest_no_oob", 1)
    /\ out' = [out EXCEPT !.st = "running"]
    /\ pc' = "mda_61"
    /\ UNCHANGED <<X, cont, caller, ops, m, sfi, tasks, loc>>

\* ------------------------------------------------------------- feat_imp_MDA
ValidScoring(scoring) == scoring \in {"neg_log_loss", "accuracy"}

\* X.iloc[rows]: a new frame holding those rows.
ILoc(frame, rows) == [r \in rows |-> frame[r]]

\* The object clf.fit is called on in the fold loop.
FitTarget == "prototype"

\* The orders np.random.shuffle can leave the rows in.
Perms(S) == {p \in [S -> S] : \A a, b \in S : p[a] = p[b] => a = b}

Permute(frame, col, p) ==
    [r \in DOMAIN frame |-> [frame[r] EXCEPT ![col] = frame[p[r]][col]]]

\* The shuffle applied to the fold's test partition itself, without a copy.
ShuffledInPlace(X_test, col, p) ==
    [shared |-> Permute(X_test, col, p), copy |-> Permute(X_test, col, p)]

\* X_test_ = X_test.copy(deep=True); np.random.shuffle(X_test_[col].values):
\* the fold's test partition afterwards, and the copy that is scored.
Shuffled(X_test, col, p) ==
    [shared |-> X_test, copy |-> Permute(X_test, col, p)]

\* The two denominators exchanged between the scoring modes.
MDARatioSwapped(scoring, base, perm) ==
    LET imprv == Add(Neg(perm), base)
        max_imprv == IF scoring = "neg_log_loss" THEN Sub(One, perm)
                     ELSE Neg(perm)
    IN  Div(imprv, max_imprv)

\* imprv / max_imprv of one (fold, column) cell.
MDARatio(scoring, base, perm) ==
    LET imprv == Add(Neg(perm), base)
        max_imprv == IF scoring = "neg_log_loss" THEN Neg(perm)
                     ELSE Sub(One, perm)
    IN  Div(imprv, max_imprv)

\* Column c of imp = imprv / max_imprv, one entry per fold.
MDAColumn(scoring, scores, scores_perm, c) ==
    [k \in 1..Len(scores) |-> MDARatio(scoring, scores[k], scores_perm[k][c])]

\* imp: mean and std * sqrt(imp.shape[0]) of every column.
MDAReport(scoring, scores, scores_perm) ==
    [i \in 1..Len(Columns) |->
        LET col == MDAColumn(scoring, scores, scores_perm, Columns[i])
        IN  Row(Columns[i], PdMean(col), StdSq(col, Len(scores)))]

MDA_Enter ==
    /\ pc = "mda_61"
    /\ \/ /\ ~ValidScoring(args.scoring)
          /\ Throw("wrong scoring method", "mda_61")
          /\ UNCHANGED m
       \/ /\ ValidScoring(args.scoring)
          /\ m' = [MInit EXCEPT
                     !.idx = 1,
                     !.scores = [k \in 1..n_splits |-> NaN],
                     !.scores_perm = [k \in 1..n_splits |-> [c \in ColSet |-> NaN]]]
          /\ pc' = "mda_split"
          /\ UNCHANGED out
    /\ UNCHANGED <<entry, args, X, cont, caller, clf, ops, sfi, tasks, loc>>

\* for idx, (train, test) in zip(index, cv_gen.split(X=X)): the next fold and
\* its partitions.
MDA_Split ==
    /\ pc = "mda_split"
    /\ m.idx <= n_splits
    /\ \/ /\ Throw("split failed", "mda_split")
          /\ UNCHANGED m
       \/ /\ m' = [m EXCEPT
                     !.train = Split(cont)[m.idx].train,
                     !.test = Split(cont)[m.idx].test,
                     !.X_test = ILoc(X, Split(cont)[m.idx].test)]
          /\ pc' = "mda_fit"
          /\ UNCHANGED out
    /\ UNCHANGED <<entry, args, X, cont, caller, clf, ops, sfi, tasks, loc>>

\* clf_fit = clf.fit(X_train, y_train, sample_weight=w_train)
MDA_Fit ==
    /\ pc = "mda_fit"
    /\ \/ /\ Throw("fit failed", "mda_split")
          /\ UNCHANGED <<m, clf, ops>>
       \/ /\ ops' = Append(ops, FitOp("feat_imp_MDA", FitTarget, m.train,
                                      ColSet, m.idx, args.weighted))
          /\ clf' = IF FitTarget = "prototype"
                    THEN [clf EXCEPT !.fit = Len(ops) + 1] ELSE clf
          /\ m' = [m EXCEPT !.fitted = Len(ops) + 1]
          /\ pc' = "mda_base"
          /\ UNCHANGED out
    /\ UNCHANGED <<entry, args, X, cont, caller, sfi, tasks, loc>>

\* scores.loc[idx] = the score of clf_fit on the fold's test partition.
MDA_Base ==
    /\ pc = "mda_base"
    /\ \/ /\ Throw("score failed", "mda_split")
          /\ UNCHANGED <<m, ops>>
       \/ \E s \in ScoreValues(args.scoring) :
          /\ ops' = Append(ops, ScoreOp("feat_imp_MDA", FitTarget, m.test,
                                        ColSet, m.idx, "-", m.fitted,
                                        args.weighted))
          /\ m' = [m EXCEPT !.scores[m.idx] = s, !.ci = 1]
          /\ pc' = "mda_perm"
          /\ UNCHANGED out
    /\ UNCHANGED <<entry, args, X, cont, caller, clf, sfi, tasks, loc>>

\* One pass of 'for col in X.columns': copy, shuffle, score.
MDA_Perm ==
    /\ pc = "mda_perm"
    /\ \/ /\ Throw("score failed", "mda_split")
          /\ UNCHANGED <<m, ops>>
       \/ \E s \in ScoreValues(args.scoring), p \in Perms(m.test) :
          LET col == Columns[m.ci]
              sh == Shuffled(m.X_test, col, p)
              last == m.ci = Len(Columns)
          IN  /\ ops' = Append(ops, ScoreOp("feat_imp_MDA", FitTarget, m.test,
                                            ColSet, m.idx, col, m.fitted,
                                            args.weighted))
              /\ m' = [m EXCEPT
                         !.X_test = sh.shared,
                         !.X_test_ = sh.copy,
                         !.scores_perm[m.idx][col] = s,
                         !.ci = IF last THEN 0 ELSE m.ci + 1,
                         !.idx = IF last THEN m.idx + 1 ELSE m.idx]
              /\ pc' = IF last THEN "mda_split" ELSE "mda_perm"
              /\ UNCHANGED out
    /\ UNCHANGED <<entry, args, X, cont, caller, clf, sfi, tasks, loc>>

\* The aggregation after the loop, and the return of (imp, scores.mean()).
MDA_Return ==
    /\ pc = "mda_split"
    /\ m.idx > n_splits
    /\ LET imp == MDAReport(args.scoring, m.scores, m.scores_perm)
           mean == PdMean(m.scores)
       IN  IF entry = "feat_imp_MDA"
           THEN /\ out' = [out EXCEPT !.st = "returned", !.imp = imp,
                                      !.oos = Scalar(mean)]
                /\ pc' = "done"
                /\ UNCHANGED loc
           ELSE /\ loc' = [loc EXCEPT !.imp = imp, !.oos = Scalar(mean),
                                      !.folds = m.scores]
                /\ pc' = "orch_195"
                /\ UNCHANGED out
    /\ UNCHANGED <<entry, args, X, cont, caller, clf, ops, m, sfi, tasks>>

\* ----------------------------------------------------------------- cv_score
\* The classifier operations of the first len steps of a cross-validation
\* over the folds of cv_gen: fit on the train rows, score on the test rows.
\* base is the length of the log before the pass.
CvOps(by, cols, weighted, ct, base, len) ==
    [i \in 1..len |->
        IF i % 2 = 1
        THEN FitOp(by, "cv_score", Split(ct)[(i + 1) \div 2].train, cols,
                   (i + 1) \div 2, weighted)
        ELSE ScoreOp(by, "cv_score", Split(ct)[i \div 2].test, cols,
                     i \div 2, "-", base + i - 1, weighted)]

\* What cv_score(clf, X[cols], y, sample_weight, scoring, cv_gen) can do from
\* a log of length base: reject the scoring name before any fold, fail in a
\* fit or a score of some fold, or return one score per fold.
CvOutcomes(by, cols, scoring, weighted, ct, base) ==
    IF ~ValidScoring(scoring)
    THEN {[err |-> "wrong scoring method", scores |-> <<>>, ops |-> <<>>]}
    ELSE {[err |-> IF len % 2 = 0 THEN "fit failed" ELSE "score failed",
           scores |-> <<>>,
           ops |-> CvOps(by, cols, weighted, ct, base, len)] :
             len \in 0..(2 * n_splits - 1)}
         \cup
         {[err |-> "", scores |-> s,
           ops |-> CvOps(by, cols, weighted, ct, base, 2 * n_splits)] :
             s \in [1..n_splits -> ScoreValues(scoring)]}

\* ------------------------------------------------------------- feat_imp_SFI
\* feat_imp_SFI(clf, X, y, sample_weight, scoring, n_splits, t1, cv_gen, ...)
CallSFI(scoring, weighted) ==
    /\ pc = "idle"
    /\ entry' = "feat_imp_SFI"
    /\ args' = [NoArgs EXCEPT !.scoring = scoring, !.weighted = weighted,
                               !.clfArg = "forest_no_oob"]
    /\ clf' = BuildClf("forest_no_oob", 1)
    /\ out' = [out EXCEPT !.st = "running"]
    /\ sfi' = [sfi EXCEPT !["direct"] = [st |-> "running", i |-> 1, imp |-> <<>>]]
    /\ pc' = "sfi"
    /\ UNCHANGED <<X, cont, caller, ops, m, tasks, loc>>

\* One pass of 'for feat_name in X.columns' in context ctx: a complete
\* cross-validation on the single column, then the row of that feature.
SFI_Feature(ctx) ==
    /\ sfi[ctx].st = "running"
    /\ sfi[ctx].i <= Len(Columns)
    /\ LET feat == Columns[sfi[ctx].i]
       IN  \E o \in CvOutcomes("feat_imp_SFI", {feat}, args.scoring,
                               args.weighted, cont, Len(ops)) :
           /\ ops' = ops \o o.ops
           /\ IF o.err = ""
              THEN /\ sfi' = [sfi EXCEPT
                                ![ctx].imp = SetRow(@, Row(feat, PdMean(o.scores),
                                                StdSq(o.scores, Len(o.scores)))),
                                ![ctx].i = @ + 1]
                   /\ UNCHANGED <<out, pc, tasks>>
              ELSE LET h == Raise(o.err, "sfi")
                   IN  /\ sfi' = IF h.st = "raised"
                                 THEN [sfi EXCEPT ![ctx].st = "raised"]
                                 ELSE [sfi EXCEPT ![ctx].i = @ + 1]
                       /\ IF ctx = "direct"
                          THEN /\ out' = [out EXCEPT !.st = h.st, !.err = o.err]
                               /\ pc' = IF h.st = "raised" THEN h.pc ELSE pc
                               /\ UNCHANGED tasks
                          ELSE /\ out' = [out EXCEPT !.err = o.err]
                               /\ tasks' = IF h.st = "raised"
                                           THEN [tasks EXCEPT ![ctx] = "failed"]
                                           ELSE tasks
                               /\ UNCHANGED pc
    /\ UNCHANGED <<entry, args, X, cont, caller, clf, m, loc>>

\* return imp
SFI_Return(ctx) ==
    /\ sfi[ctx].st = "running"
    /\ sfi[ctx].i > Len(Columns)
    /\ sfi' = [sfi EXCEPT ![ctx].st = "done"]
    /\ IF ctx = "direct"
       THEN /\ out' = [out EXCEPT !.st = "returned", !.imp = sfi[ctx].imp]
            /\ pc' = "done"
            /\ UNCHANGED tasks
       ELSE /\ tasks' = [tasks EXCEPT ![ctx] = "done"]
            /\ UNCHANGED <<out, pc>>
    /\ UNCHANGED <<entry, args, X, cont, caller, clf, ops, m, loc>>

\* ------------------------------------------------- feat_imp_MDI, called alone
CallMDI(forest) ==
    /\ pc = "idle"
    /\ entry' = "feat_imp_MDI"
    /\ args' = [NoArgs EXCEPT !.forest = forest]
    /\ out' = [out EXCEPT !.st = "running"]
    /\ pc' = "mdi"
    /\ UNCHANGED <<X, cont, caller, clf, ops, m, sfi, tasks, loc>>

MDI_Return ==
    /\ pc = "mdi"
    /\ out' = [out EXCEPT !.st = "returned",
                          !.imp = AsTable(feat_imp_MDI(args.forest))]
    /\ pc' = "done"
    /\ UNCHANGED <<entry, args, X, cont, caller, clf, ops, m, sfi, tasks, loc>>

\* ---------------------------------------------------------- feat_importance
\* The calls of the orchestrator that are enumerated: the worker count is
\* varied with method SFI, the only method that dispatches.
OrchCalls ==
    { a \in [method : Methods, scoring : ScoringNames,
             clfArg : {"None", "forest_no_oob"}, num_threads : 1..MaxWorkers] :
        a.method # "SFI" => a.num_threads = 1 }

CallOrch(a) ==
    /\ pc = "idle"
    /\ entry' = "feat_importance"
    /\ args' = [NoArgs EXCEPT !.method = a.method, !.scoring = a.scoring,
                               !.clfArg = a.clfArg,
                               !.num_threads = a.num_threads,
                               !.weighted = TRUE]
    /\ out' = [out EXCEPT !.st = "running"]
    /\ pc' = "orch_164"
    /\ UNCHANGED <<X, cont, caller, clf, ops, m, sfi, tasks, loc>>

\* The first fold's train partition instead of the full dataset.
FoldFitRows == TrainRows(1, ContOf)

\* The rows fit_clf = clf.fit(X, cont['size'], ...) is trained on.
FullFitRows == Rows

\* Build the classifier when none was passed, fit it on the full dataset and
\* read its out-of-bag score.
Orch_Fit ==
    /\ pc = "orch_164"
    /\ \/ /\ clf' = BuildClf(args.clfArg, args.num_threads)
          /\ Throw("fit failed", "orch_178")
          /\ UNCHANGED <<ops, loc>>
       \/ /\ ops' = Append(ops, FitOp("feat_importance", "prototype",
                                      FullFitRows, ColSet, 0, TRUE))
          /\ clf' = [BuildClf(args.clfArg, args.num_threads)
                        EXCEPT !.fit = Len(ops) + 1]
          /\ loc' = [loc EXCEPT !.oob = IF HasOob(clf') THEN OobScore(clf'.fit)
                                        ELSE NoneVal]
          /\ pc' = "orch_178"
          /\ UNCHANGED out
    /\ UNCHANGED <<entry, args, X, cont, caller, m, sfi, tasks>>

\* method == 'MDI': imp = feat_imp_MDI(fit_clf, feat_names=X.columns), read
\* from the estimators_ the classifier object holds at this point.
Orch_MDI ==
    /\ pc = "orch_178"
    /\ args.method = "MDI"
    /\ \E forest \in Forests :
          loc' = [loc EXCEPT !.imp = AsTable(feat_imp_MDI(forest)),
                             !.impFit = clf.fit]
    /\ pc' = "orch_180"
    /\ UNCHANGED <<entry, args, X, cont, caller, clf, ops, m, sfi, tasks, out>>

\* The scores of a full-feature cross-validation, as method MDI keeps them.
MDIOos(scores) == Scalar(PdMean(scores))

\* oos = cv_score(clf, X=X, ...).mean()
Orch_MDI_Oos ==
    /\ pc = "orch_180"
    /\ \E o \in CvOutcomes("feat_importance", ColSet, args.scoring, TRUE,
                           cont, Len(ops)) :
          /\ ops' = ops \o o.ops
          /\ IF o.err = ""
             THEN /\ loc' = [loc EXCEPT !.oos = MDIOos(o.scores),
                                        !.folds = o.scores]
                  /\ pc' = "orch_195"
                  /\ UNCHANGED out
             ELSE /\ Throw(o.err, "orch_195")
                  /\ UNCHANGED loc
    /\ UNCHANGED <<entry, args, X, cont, caller, clf, m, sfi, tasks>>

\* method == 'MDA': imp, oos = feat_imp_MDA(clf, X=X, ...)
Orch_MDA ==
    /\ pc = "orch_178"
    /\ args.method = "MDA"
    /\ pc' = "mda_61"
    /\ UNCHANGED <<entry, args, X, cont, caller, clf, ops, m, sfi, tasks, loc, out>>

\* The scores of a full-feature cross-validation, as method SFI keeps them.
SFIOos(scores) == Series(scores)

\* method == 'SFI': cv_gen = PurgedKFold(...); oos = cv_score(clf, X=X, ...)
Orch_SFI_Oos ==
    /\ pc = "orch_178"
    /\ args.method = "SFI"
    /\ \E o \in CvOutcomes("feat_importance", ColSet, args.scoring, TRUE,
                           cont, Len(ops)) :
          /\ ops' = ops \o o.ops
          /\ IF o.err = ""
             THEN /\ loc' = [loc EXCEPT !.oos = SFIOos(o.scores),
                                        !.folds = o.scores]
                  /\ pc' = "orch_191"
                  /\ UNCHANGED out
             ELSE /\ Throw(o.err, "orch_191")
                  /\ UNCHANGED loc
    /\ UNCHANGED <<entry, args, X, cont, caller, clf, m, sfi, tasks>>

\* The keyword arguments every dispatched call of the task function gets:
\* the dispatched argument 'feat_names' and the shared ones.
PassedKwargs == {"feat_names", "clf", "X", "cont", "scoring", "cv_gen"}

\* The parameters of feat_imp_SFI, and those without a default.
SFIParams ==
    {"clf", "X", "y", "sample_weight", "scoring", "n_splits", "t1", "cv_gen",
     "pct_embargo", "purging"}
SFIRequired == {"clf", "X", "y"}

\* Python's binding of a call's keyword arguments to the parameters.
Binds(passed, params, required) ==
    passed \subseteq params /\ required \subseteq passed

\* clf.n_jobs = 1; imp = mp_pandas_obj(feat_imp_SFI, ('feat_names', X.columns),
\* num_threads, ...): one task per feature column is queued.
Orch_Dispatch ==
    /\ pc = "orch_191"
    /\ clf' = [clf EXCEPT !.n_jobs = 1]
    /\ tasks' = [c \in ColSet |-> "pending"]
    /\ pc' = "orch_tasks"
    /\ UNCHANGED <<entry, args, X, cont, caller, ops, m, sfi, loc, out>>

Running == {c \in ColSet : tasks[c] = "running"}

\* A free worker takes a pending task and calls the task function with the
\* keyword arguments of the dispatch.
TaskCall(c) ==
    /\ pc = "orch_tasks"
    /\ tasks[c] = "pending"
    /\ Cardinality(Running) < args.num_threads
    /\ IF Binds(PassedKwargs, SFIParams, SFIRequired)
       THEN /\ tasks' = [tasks EXCEPT ![c] = "running"]
            /\ sfi' = [sfi EXCEPT ![c] = [st |-> "running", i |-> 1, imp |-> <<>>]]
            /\ UNCHANGED out
       ELSE /\ tasks' = [tasks EXCEPT ![c] = "failed"]
            /\ out' = [out EXCEPT !.err = "TypeError"]
            /\ UNCHANGED sfi
    /\ UNCHANGED <<entry, args, pc, X, cont, caller, clf, ops, m, loc>>

RECURSIVE Concat(_, _)
\* The results of the tasks, concatenated in the order of their keys.
Concat(results, i) ==
    IF i > Len(Columns) THEN <<>>
    ELSE results[Columns[i]].imp \o Concat(results, i + 1)

\* The dispatcher's merge, once every task has ended: the failure of a task
\* fails the computation, otherwise the results are concatenated into imp.
Orch_Join ==
    /\ pc = "orch_tasks"
    /\ \A c \in ColSet : tasks[c] \in {"done", "failed"}
    /\ IF \E c \in ColSet : tasks[c] = "failed"
       THEN /\ Throw(out.err, "orch_195")
            /\ UNCHANGED loc
       ELSE /\ loc' = [loc EXCEPT !.imp = Concat(sfi, 1)]
            /\ pc' = "orch_195"
            /\ UNCHANGED out
    /\ UNCHANGED <<entry, args, X, cont, caller, clf, ops, m, sfi, tasks>>

\* return imp, oob, oos
Orch_Return ==
    /\ pc = "orch_195"
    /\ entry = "feat_importance"
    /\ out' = [out EXCEPT !.st = "returned", !.imp = loc.imp,
                          !.oob = loc.oob, !.oos = loc.oos]
    /\ pc' = "done"
    /\ UNCHANGED <<entry, args, X, cont, caller, clf, ops, m, sfi, tasks, loc>>

\* ------------------------------------------------------------ specification
Next ==
    \/ \E s \in ScoringNames, w \in BOOLEAN : CallMDA(s, w)
    \/ \E s \in ScoringNames, w \in BOOLEAN : CallSFI(s, w)
    \/ \E f \in Forests : CallMDI(f)
    \/ \E a \in OrchCalls : CallOrch(a)
    \/ MDA_Enter
    \/ MDA_Split
    \/ MDA_Fit
    \/ MDA_Base
    \/ MDA_Perm
    \/ MDA_Return
    \/ \E ctx \in Contexts : SFI_Feature(ctx)
    \/ \E ctx \in Contexts : SFI_Return(ctx)
    \/ MDI_Return
    \/ Orch_Fit
    \/ Orch_MDI
    \/ Orch_MDI_Oos
    \/ Orch_MDA
    \/ Orch_SFI_Oos
    \/ Orch_Dispatch
    \/ \E c \in ColSet : TaskCall(c)
    \/ Orch_Join
    \/ Orch_Return

Spec == Init /\ [][Next]_vars

\* ---------------------------------------------------------------- properties
Fits == {i \in 1..Len(ops) : ops[i].op = "fit"}
Scores == {i \in 1..Len(ops) : ops[i].op = "score"}

OneRowPerColumn(imp) ==
    /\ Len(imp) = Len(Columns)
    /\ \A c \in ColSet : Cardinality({i \in 1..Len(imp) : imp[i].name = c}) = 1

MeansOf(imp) == [i \in 1..Len(imp) |-> imp[i].mean]

\* feat_imp_MDA has handed its result over: to the caller, or to the
\* orchestrator's imp and oos.
MDAReturned ==
    \/ entry = "feat_imp_MDA" /\ out.st = "returned"
    \/ /\ entry = "feat_importance" /\ args.method = "MDA"
       /\ pc \in {"orch_195", "done"} /\ loc.imp # <<>>

MDAImp == IF entry = "feat_imp_MDA" THEN out.imp ELSE loc.imp
MDAOos == IF entry = "feat_imp_MDA" THEN out.oos ELSE loc.oos

\* The baseline scorings of fold k and the permuted scorings of (k, c).
BaseScorings(k) ==
    {i \in Scores : ops[i].by = "feat_imp_MDA" /\ ops[i].fold = k
                    /\ ops[i].col = "-"}
PermScorings(k, c) ==
    {i \in Scores : ops[i].by = "feat_imp_MDA" /\ ops[i].fold = k
                    /\ ops[i].col = c}
MDAFits(k) ==
    {i \in Fits : ops[i].by = "feat_imp_MDA" /\ ops[i].fold = k}

\* Every fold was fitted and scored once, and every (fold, column) cell once.
MDAAllCells ==
    \A k \in 1..n_splits :
        /\ Cardinality(MDAFits(k)) = 1
        /\ Cardinality(BaseScorings(k)) = 1
        /\ \A c \in ColSet : Cardinality(PermScorings(k, c)) = 1

\* C1: a call with a scoring name other than "neg_log_loss" or "accuracy"
\* fails with the configuration error before any classifier fit, from every
\* entry point: when that error is raised, no fit has been performed.
C1_InvalidScoringBeforeAnyFit ==
    (out.st = "raised" /\ out.err = "wrong scoring method") => Fits = {}

\* C2: with method SFI, once every dispatched task has ended, every task has
\* returned its result and the merged report holds exactly one entry per
\* feature column, keyed by the feature name, whatever the worker count and
\* the order in which the tasks ended.
C2_MergedReportPerFeature ==
    ( /\ entry = "feat_importance" /\ args.method = "SFI"
      /\ pc = "orch_tasks"
      /\ \A c \in ColSet : tasks[c] \in {"done", "failed"} )
    => /\ \A c \in ColSet : tasks[c] = "done"
       /\ OneRowPerColumn(Concat(sfi, 1))
       /\ \A i \in 1..Len(Columns) : Concat(sfi, 1)[i].name = Columns[i]

\* C3: no local recovery.  A failure of a fit, a scoring call or a split never
\* ends in a returned report; a report that is returned has one entry per
\* feature, and its entries rest on every fold: all folds and all
\* (fold, feature) cells were computed.
C3_NoLocalRecovery ==
    /\ out.err # "" => out.st # "returned"
    /\ out.st = "raised" => out.imp = <<>>
    /\ out.st = "returned" =>
         /\ OneRowPerColumn(out.imp)
         /\ (entry = "feat_imp_MDA" \/ args.method = "MDA") => MDAAllCells
         /\ entry = "feat_imp_SFI" =>
              \A c \in ColSet :
                 Cardinality({i \in Scores : ops[i].by = "feat_imp_SFI"
                                             /\ ops[i].cols = {c}}) = n_splits
         /\ args.method = "MDI" =>
              /\ Len(loc.folds) = n_splits
              /\ Cardinality({i \in Scores : ops[i].by = "feat_importance"})
                   = n_splits

\* A fit failed in the second fold of feat_imp_MDA, after the first fold was
\* completed, and the call ended with that failure.
C3_Witness ==
    /\ entry = "feat_imp_MDA" /\ out.st = "raised" /\ out.err = "fit failed"
    /\ m.idx = 2
    /\ \A c \in ColSet : Cardinality(PermScorings(1, c)) = 1

\* The sum over the trees and the number of non-zero entries of column c.
ColSum(forest, c) == SumSeq([i \in 1..Len(forest) |-> forest[i][c]])
NonZero(forest, c) == {i \in 1..Len(forest) : forest[i][c].n # 0}
\* The mean of column c over the trees whose entry is non-zero.
UsedMean(forest, c) ==
    IF NonZero(forest, c) = {} THEN NaN
    ELSE Div(ColSum(forest, c), Rat(Cardinality(NonZero(forest, c)), 1))
UsedMeanSum(forest) ==
    PdSum([i \in 1..Len(Columns) |-> UsedMean(forest, Columns[i])])

\* The report of feat_imp_MDI, where one was produced.
MDIDone ==
    \/ entry = "feat_imp_MDI" /\ out.st = "returned"
    \/ entry = "feat_importance" /\ args.method = "MDI" /\ loc.imp # <<>>
MDIImp == IF entry = "feat_imp_MDI" THEN out.imp ELSE loc.imp

\* C4 as stated: for any fitted ensemble the feature means reported by
\* feat_imp_MDI sum to 1.
C4_MeansSumToOne ==
    MDIDone => PdSum(MeansOf(MDIImp)) = One

\* C4 as amended: for a fitted ensemble in which some tree has a non-zero
\* entry, the reported means sum to 1 and each feature's mean is its mean over
\* the trees whose entry is non-zero, divided by the sum of those means; a
\* feature no tree used is reported as missing.  When every entry of every
\* tree is zero, every mean is missing.
C4_MeansSumToOneIfUsed ==
    /\ MDIDone =>
         \/ PdSum(MeansOf(MDIImp)) = One
         \/ \A i \in 1..Len(MDIImp) : IsNaN(MDIImp[i].mean)
    /\ (entry = "feat_imp_MDI" /\ out.st = "returned") =>
         /\ OneRowPerColumn(out.imp)
         /\ (\E c \in ColSet : NonZero(args.forest, c) # {})
              => PdSum(MeansOf(out.imp)) = One
         /\ \A i \in 1..Len(out.imp) :
               out.imp[i].mean =
                  Div(UsedMean(args.forest, out.imp[i].name),
                      UsedMeanSum(args.forest))

\* A report for an ensemble in which some column is used by one tree and not
\* by another.
C4_Witness ==
    /\ entry = "feat_imp_MDI" /\ out.st = "returned"
    /\ \E c \in ColSet :
          /\ NonZero(args.forest, c) # {}
          /\ NonZero(args.forest, c) # 1..Len(args.forest)
    /\ PdSum(MeansOf(out.imp)) = One

\* C5: every permutation of feat_imp_MDA acts on an isolated copy.  The
\* matrix scored for column c has column c equal to a permutation of the
\* fold's test column c and every other column equal to the unperturbed test
\* partition; the fold's shared test partition and the caller's X, labels,
\* weights and event spans are unchanged throughout.
C5_PermutationOnIsolatedCopy ==
    /\ X = caller.X
    /\ cont = caller.cont
    /\ m.test # {} => m.X_test = ILoc(caller.X, m.test)
    /\ (Len(ops) > 0 /\ ops[Len(ops)].op = "score" /\ ops[Len(ops)].col # "-")
         => LET c == ops[Len(ops)].col
                test == Split(caller.cont)[ops[Len(ops)].fold].test
            IN  /\ DOMAIN m.X_test_ = test
                /\ ops[Len(ops)].rows = test
                /\ \E p \in Perms(test) :
                      \A r \in test : m.X_test_[r][c] = caller.X[p[r]][c]
                /\ \A r \in test : \A d \in ColSet \ {c} :
                      m.X_test_[r][d] = caller.X[r][d]

\* Column B of the second fold has just been scored on a copy whose rows
\* were really reordered, after column A had been shuffled and scored.
C5_Witness ==
    /\ Len(ops) > 0 /\ ops[Len(ops)].op = "score"
    /\ ops[Len(ops)].col = "B" /\ ops[Len(ops)].fold = 2
    /\ m.X_test_ # m.X_test
    /\ Cardinality(PermScorings(2, "A")) = 1

\* C6: for every method, the value the orchestrator returns as oos is a
\* single scalar, the mean over the folds of the per-fold out-of-sample
\* scores (for MDA the mean of MDA's own baseline scores, with no separate
\* cross-validation pass), and oob is the out-of-bag score of the full-data
\* fit when the classifier exposes one and None otherwise.
C6_ReturnedTriple ==
    entry = "feat_importance" =>
      /\ loc.oos.kind # "unset" =>
           /\ loc.oos.kind = "scalar"
           /\ loc.oos.val = PdMean(loc.folds)
           /\ Len(loc.folds) = n_splits
      /\ (args.method = "MDA" /\ loc.oos.kind # "unset") =>
           /\ loc.folds = m.scores
           /\ {i \in 1..Len(ops) : ops[i].by = "feat_importance"} = {1}
      /\ loc.oob.kind # "unset" =>
           loc.oob = IF HasOob(clf) THEN OobScore(1) ELSE NoneVal
      /\ out.st = "returned" =>
           /\ out.oos = loc.oos /\ out.oob = loc.oob /\ out.imp = loc.imp
           /\ OneRowPerColumn(out.imp)

\* C7: with method SFI one task per feature column is dispatched, every
\* keyword argument of the dispatch is a parameter of feat_imp_SFI and every
\* parameter without a default is supplied, so no task fails at invocation.
C7_TasksInvokable ==
    (entry = "feat_importance" /\ pc = "orch_tasks") =>
      /\ DOMAIN tasks = ColSet
      /\ \A c \in ColSet : tasks[c] # "failed" \/ out.err # "TypeError"
      /\ \A c \in ColSet : tasks[c] # "pending" =>
            Binds(PassedKwargs, SFIParams, SFIRequired)

\* C8: feat_imp_MDA fits a fresh clone of the prototype in every fold, on
\* that fold's train partition only, and never the prototype object itself;
\* it performs n_splits fits, n_splits baseline scorings and n_splits x F
\* permuted scorings, each with the model fitted in its own fold.
C8_FreshCloneEveryFold ==
    /\ \A i \in Fits : ops[i].by = "feat_imp_MDA" =>
          /\ ops[i].obj # "prototype"
          /\ ops[i].rows = Split(cont)[ops[i].fold].train
    /\ entry = "feat_imp_MDA" => clf.fit = 0
    /\ \A i \in Scores : (ops[i].by = "feat_imp_MDA") =>
          ops[i].model \in MDAFits(ops[i].fold)
    /\ MDAReturned => MDAAllCells

\* (baseline - permuted) / D of one cell, as the claim defines it.
ClaimedRatio(scoring, base, perm) ==
    Div(Sub(base, perm),
        IF scoring = "neg_log_loss" THEN Neg(perm) ELSE Sub(One, perm))
ClaimedColumn(c) ==
    [k \in 1..n_splits |->
        ClaimedRatio(args.scoring, m.scores[k], m.scores_perm[k][c])]

\* C9 as stated: the importance of feature c is the mean over all n_splits
\* folds of (baseline - permuted) / D, every cell being populated once, and
\* the second returned value is the mean of the baseline fold scores.
C9_MeanOverAllFolds ==
    MDAReturned =>
      /\ MDAAllCells
      /\ OneRowPerColumn(MDAImp)
      /\ \A i \in 1..Len(MDAImp) :
            MDAImp[i].mean =
               Div(SumSeq(ClaimedColumn(MDAImp[i].name)), Rat(n_splits, 1))
      /\ MDAOos = Scalar(Div(SumSeq(m.scores), Rat(n_splits, 1)))

\* C9 as amended: the importance of feature c is the mean of
\* (baseline - permuted) / D over the folds in which that ratio is defined.
\* A fold with D = 0 and baseline = permuted (0/0) is a missing value and is
\* left out of the mean, which is missing when no fold is left; a fold with
\* D = 0 and baseline # permuted contributes an infinite ratio.  The ratio
\* is not clamped, every cell is populated once, and the second returned
\* value is the mean of the baseline fold scores.
C9_MeanOverDefinedFolds ==
    MDAReturned =>
      /\ MDAAllCells
      /\ OneRowPerColumn(MDAImp)
      /\ \A i \in 1..Len(MDAImp) :
            LET col == ClaimedColumn(MDAImp[i].name)
                defined == SkipNa(col)
            IN  /\ MDAImp[i].mean =
                      IF defined = <<>> THEN NaN
                      ELSE Div(SumSeq(defined), Rat(Len(defined), 1))
                /\ (\A k \in 1..n_splits : IsNum(col[k])) =>
                      MDAImp[i].mean = Div(SumSeq(col), Rat(n_splits, 1))
      /\ MDAOos = Scalar(Div(SumSeq(m.scores), Rat(n_splits, 1)))

\* A returned report with a feature whose ratio is 0/0 in the first fold and
\* negative in the second: its mean is the second fold's ratio alone.
C9_Witness ==
    /\ MDAReturned
    /\ \E c \in ColSet :
          /\ IsNaN(ClaimedColumn(c)[1])
          /\ IsNum(ClaimedColumn(c)[2]) /\ ClaimedColumn(c)[2].n < 0
          /\ \E i \in 1..Len(MDAImp) :
                MDAImp[i].name = c /\ MDAImp[i].mean = ClaimedColumn(c)[2]

\* C10: in every orchestrator call the classifier is fitted on the full
\* dataset exactly once, and that fit is the first classifier operation: it
\* precedes every cross-validation fit, every estimator and the dispatch.
\* The oob score is read from that fit, and with method MDI the importances
\* are read from the ensemble as fitted on the full dataset.
C10_FullFitFirst ==
    entry = "feat_importance" =>
      /\ (pc \notin {"idle", "orch_164"} /\ out.err # "fit failed")
           => Len(ops) >= 1
      /\ Len(ops) >= 1 =>
           /\ ops[1] = FitOp("feat_importance", "prototype", Rows, ColSet, 0, TRUE)
           /\ \A i \in Fits : i # 1 =>
                 ops[i].rows # Rows /\ ops[i].fold # 0
      /\ loc.oob.kind = "oob_score_" =>
           ops[loc.oob.fit].rows = Rows /\ loc.oob.fit = 1
      /\ (args.method = "MDI" /\ loc.imp # <<>>) =>
           /\ loc.impFit = 1
           /\ ops[loc.impFit].op = "fit" /\ ops[loc.impFit].rows = Rows
      /\ tasks # [c \in ColSet |-> "none"] => Len(ops) >= 1

\* A returned MDI call: the importances were read after the full-data fit,
\* and the cross-validation fits followed it.
C10_Witness ==
    /\ entry = "feat_importance" /\ args.method = "MDI"
    /\ out.st = "returned"
    /\ Cardinality(Fits) = 1 + n_splits
    /\ loc.oob.kind = "oob_score_"
====
